---- MODULE Spec2Model ----
(***************************************************************************)
(* StudyMate-CLI: the session registry (class vectordb), the query flow    *)
(* (class RAGAssistant) and the interactive shell (functions.py, main.py). *)
(*                                                                         *)
(* A session name, a registry-file line and a line typed at a prompt are   *)
(* sequences of one-character strings, so that str.strip() is computed.    *)
(* The registry file sessions.txt is the sequence of its lines, each       *)
(* without its terminating newline.                                        *)
(***************************************************************************)
EXTENDS Integers, Sequences, FiniteSets, TLC

\* ---------------------------------------------------------------- bounds
MaxSessions == 2
MaxLines == 2
MaxBatch == 2
MaxChunks == 3
MaxLlmCalls == 1

\* ------------------------------------------------------- program constants
\* n_results, the default number of chunks a query asks for
NResults == 5

Fallback == "I don't know. No relevant information found."

\* ----------------------------------------------------------------- inputs
\* the names a caller can pass: the empty one, a blank one, two plain ones, and
\* one of them with a space before it and with a space after it
Names == {<<>>, <<" ">>, <<"a">>, <<"b">>, <<" ", "a">>, <<"a", " ">>}

\* the document paths a caller can hand to add_file, each written as one token:
\* two PDFs that load, of one and of two chunks, and a path PyPDFLoader cannot load
Paths == {<<"d1">>, <<"d2">>, <<"bad">>}

Batches == UNION {[1..k -> Paths] : k \in 0..MaxBatch}

\* the names the ingestion and query calls are made with
IngestNames == {<<"a">>, <<"b">>}

Questions == {<<"q">>}

\* what the user can type at the menu, at the document prompt and at the chat prompt
Choices == {<<"1">>, <<"2">>, <<"3">>, <<"4">>, <<"5">>, <<"6">>, <<"x">>, <<" ", "6">>}

DocInputs == Paths \cup {<<"done">>, <<"DONE">>}

QuestionInputs == Questions \cup {<<"quit">>, <<"QUIT">>}

Range(s) == {s[i] : i \in 1..Len(s)}

\* ------------------------------------------------------------- str.strip
RECURSIVE LStrip(_)
LStrip(s) == IF s # <<>> /\ Head(s) = " " THEN LStrip(Tail(s)) ELSE s

RECURSIVE RStrip(_)
RStrip(s) ==
    IF s # <<>> /\ s[Len(s)] = " " THEN RStrip(SubSeq(s, 1, Len(s) - 1)) ELSE s

Strip(s) == RStrip(LStrip(s))

\* str.lower, on the words the shell compares with
Lower(s) ==
    [i \in 1..Len(s) |-> IF s[i] = "DONE" THEN "done"
                         ELSE IF s[i] = "QUIT" THEN "quit" ELSE s[i]]

\* ------------------------------------------------------------------ state
VARIABLES
    collections,        \* vectordb.collections: the dict's keys, in insertion order
    sessionsTxtExists,  \* os.path.exists("sessions.txt")
    sessionsTxt,        \* the lines of sessions.txt
    chroma,             \* ./chroma_db: collection name -> the chunks it holds
    llmCalls,           \* how often chain.invoke has run
    call,               \* the last call made on vectordb / RAGAssistant
    ret,                \* what that call returned or raised
    rawName,            \* some create_session was given a name that strip() changes
    pc,                 \* the shell: the prompt it waits at
    session_name,       \* the shell: the local session_name of the running command
    documents_list,     \* the shell: add_documents' documents_list
    input               \* the shell: the line input() returned last

dbVars == <<collections, sessionsTxtExists, sessionsTxt, chroma>>
shellVars == <<pc, session_name, documents_list, input>>
vars == <<collections, sessionsTxtExists, sessionsTxt, chroma, llmCalls, call, ret,
          rawName, pc, session_name, documents_list, input>>

Call(op, name, docs) == [op |-> op, name |-> name, docs |-> docs]

\* ----------------------------------------------------- dict and Chroma
\* session_name in self.collections
HasSession(keys, name) == name \in Range(keys)

\* self.collections[name] = ...: a new key goes last, a present key keeps its place
DictSet(keys, name) == IF HasSession(keys, name) THEN keys ELSE Append(keys, name)

\* del self.collections[name]
DictDel(keys, name) == SelectSeq(keys, LAMBDA k : k # name)

\* Chroma(collection_name=name, persist_directory=...): attaches to the persisted
\* collection of that name, creating it empty when there is none
Chroma(db, name) == IF name \in DOMAIN db THEN db ELSE db @@ (name :> <<>>)

\* collection.delete_collection()
DeleteCollection(db, name) == [n \in (DOMAIN db) \ {name} |-> db[n]]

\* ------------------------------------------------------- sessions.txt
\* [line.strip() for line in f if line.strip()]
ReadNames(lines) ==
    SelectSeq([i \in 1..Len(lines) |-> Strip(lines[i])], LAMBDA l : l # <<>>)

\* _save_session_name writing the name stripped, as the readers of the file see it
SaveSessionNameStripped(lines, name) == Append(lines, Strip(name))

\* _save_session_name opening the file with "w": the earlier lines are lost
SaveSessionNameTruncating(lines, name) == <<name>>

\* _save_session_name: open("sessions.txt", "a"); f.write(session_name + "\n")
SaveSessionName(lines, name) == Append(lines, name)

\* _remove_session_name without its filter: every name is written back
RemoveSessionNameKeepsAll(lines, name) == ReadNames(lines)

\* _remove_session_name: the file rewritten from the stripped non-blank lines
\* that differ from session_name
RemoveSessionName(lines, name) == SelectSeq(ReadNames(lines), LAMBDA n : n # name)

RECURSIVE LoadKeys(_, _)
LoadKeys(keys, names) ==
    IF names = <<>> THEN keys ELSE LoadKeys(DictSet(keys, Head(names)), Tail(names))

RECURSIVE LoadChroma(_, _)
LoadChroma(db, names) ==
    IF names = <<>> THEN db ELSE LoadChroma(Chroma(db, Head(names)), Tail(names))

\* vectordb.__init__ with load_all_sessions: the registry a fresh process builds
load_all_sessions ==
    /\ collections' = IF sessionsTxtExists THEN LoadKeys(<<>>, ReadNames(sessionsTxt))
                      ELSE <<>>
    /\ chroma' = IF sessionsTxtExists THEN LoadChroma(chroma, ReadNames(sessionsTxt))
                 ELSE chroma
    /\ UNCHANGED <<sessionsTxtExists, sessionsTxt>>

\* ------------------------------------------------------------ vectordb
\* create_session without its membership test
create_session_unchecked(name) ==
    /\ call' = Call("create_session", name, <<>>)
    /\ UNCHANGED llmCalls
    /\ collections' = DictSet(collections, name)
    /\ chroma' = Chroma(chroma, name)
    /\ sessionsTxt' = SaveSessionName(sessionsTxt, name)
    /\ sessionsTxtExists' = TRUE
    /\ rawName' = (rawName \/ Strip(name) # name \/ name = <<>>)
    /\ ret' = "True"

create_session(name) ==
    /\ call' = Call("create_session", name, <<>>)
    /\ UNCHANGED llmCalls
    /\ IF HasSession(collections, name)
       THEN /\ ret' = "False"
            /\ UNCHANGED <<dbVars, rawName>>
       ELSE /\ collections' = DictSet(collections, name)
            /\ chroma' = Chroma(chroma, name)
            /\ sessionsTxt' = SaveSessionName(sessionsTxt, name)
            /\ sessionsTxtExists' = TRUE
            /\ rawName' = (rawName \/ Strip(name) # name \/ name = <<>>)
            /\ ret' = "True"

\* get_session: the collection handle, or None
get_session(keys, name) == IF HasSession(keys, name) THEN "handle" ELSE "None"

\* delete_session rewriting sessions.txt before it looks the name up
delete_session_file_first(name) ==
    /\ call' = Call("delete_session", name, <<>>)
    /\ UNCHANGED <<llmCalls, rawName, sessionsTxtExists>>
    /\ sessionsTxt' = IF sessionsTxtExists
                      THEN RemoveSessionName(sessionsTxt, name)
                      ELSE sessionsTxt
    /\ IF ~HasSession(collections, name)
       THEN /\ ret' = "KeyError"
            /\ UNCHANGED <<collections, chroma>>
       ELSE /\ chroma' = DeleteCollection(chroma, name)
            /\ collections' = DictDel(collections, name)
            /\ ret' = "None"

delete_session(name) ==
    /\ call' = Call("delete_session", name, <<>>)
    /\ UNCHANGED <<llmCalls, rawName>>
    /\ IF ~HasSession(collections, name)
       THEN /\ ret' = "KeyError"
            /\ UNCHANGED dbVars
       ELSE /\ chroma' = DeleteCollection(chroma, name)
            /\ sessionsTxt' = IF sessionsTxtExists
                              THEN RemoveSessionName(sessionsTxt, name)
                              ELSE sessionsTxt
            /\ UNCHANGED sessionsTxtExists
            /\ collections' = DictDel(collections, name)
            /\ ret' = "None"


\* ------------------------------------------------------ document ingestion
\* PyPDFLoader(docs_path).load() raises for a missing or unreadable file
Loadable(path) == path # <<"bad">>

\* how many chunks the splitter cuts the document at that path into
ChunkCount(path) == IF path = <<"d2">> THEN 2 ELSE 1

\* chunk_document(loader.load()): the chunks of one document, in order
chunk_document(path) == [i \in 1..ChunkCount(path) |-> [doc |-> path, part |-> i]]

\* the chunks of the documents docs[a..b], in order
RECURSIVE ChunksOfRange(_, _, _)
ChunksOfRange(docs, a, b) ==
    IF a > b THEN <<>> ELSE chunk_document(docs[a]) \o ChunksOfRange(docs, a + 1, b)

\* add_file's loop with all_chunks created once, before the loop: document i
\* adds the chunks of the documents 1..i again
RECURSIVE AddLoopAccumulating(_, _, _)
AddLoopAccumulating(coll, docs, i) ==
    IF i > Len(docs) THEN [coll |-> coll, raised |-> FALSE]
    ELSE IF ~Loadable(docs[i]) THEN [coll |-> coll, raised |-> TRUE]
    ELSE AddLoopAccumulating(coll \o ChunksOfRange(docs, 1, i), docs, i + 1)

\* add_file's loop skipping a document that fails to load
RECURSIVE AddLoopSkipping(_, _, _)
AddLoopSkipping(coll, docs, i) ==
    IF i > Len(docs) THEN [coll |-> coll, raised |-> FALSE]
    ELSE IF ~Loadable(docs[i]) THEN AddLoopSkipping(coll, docs, i + 1)
    ELSE AddLoopSkipping(coll \o chunk_document(docs[i]), docs, i + 1)

\* the loop of add_file from document i on: all_chunks starts empty for each
\* document, takes that document's chunks and is added to the collection; a
\* document that fails to load raises out of the loop
RECURSIVE AddLoop(_, _, _)
AddLoop(coll, docs, i) ==
    IF i > Len(docs) THEN [coll |-> coll, raised |-> FALSE]
    ELSE IF ~Loadable(docs[i]) THEN [coll |-> coll, raised |-> TRUE]
    ELSE LET all_chunks == <<>> \o chunk_document(docs[i])
         IN AddLoop(coll \o all_chunks, docs, i + 1)

add_file(documents, collection_name) ==
    /\ call' = Call("add_file", collection_name, documents)
    /\ UNCHANGED <<llmCalls, rawName, collections, sessionsTxtExists, sessionsTxt>>
    /\ IF ~HasSession(collections, collection_name)
       THEN /\ ret' = "KeyError"
            /\ UNCHANGED chroma
       ELSE LET r == AddLoop(chroma[collection_name], documents, 1)
            IN /\ chroma' = [chroma EXCEPT ![collection_name] = r.coll]
               /\ ret' = IF r.raised THEN "LoadError" ELSE "None"

\* ------------------------------------------------------------ RAGAssistant
Min(a, b) == IF a < b THEN a ELSE b

\* collection.similarity_search(question, k): the k nearest chunks, all of them
\* when the collection holds fewer (no score threshold)
similarity_search(coll, k) == SubSeq(coll, 1, Min(k, Len(coll)))

\* query without its test for an empty search result
query_unguarded(name, question) ==
    /\ call' = Call("query", name, <<>>)
    /\ UNCHANGED <<dbVars, rawName>>
    /\ IF get_session(collections, name) = "None"
       THEN /\ ret' = Fallback
            /\ UNCHANGED llmCalls
       ELSE /\ llmCalls' = llmCalls + 1
            /\ ret' = "response.content"

query(name, question) ==
    /\ call' = Call("query", name, <<>>)
    /\ UNCHANGED <<dbVars, rawName>>
    /\ IF get_session(collections, name) = "None"
       THEN /\ ret' = Fallback
            /\ UNCHANGED llmCalls
       ELSE LET docs == similarity_search(chroma[name], NResults)
            IN IF docs = <<>>
               THEN /\ ret' = Fallback
                    /\ UNCHANGED llmCalls
               ELSE /\ llmCalls' = llmCalls + 1
                    /\ ret' = "response.content"

\* ------------------------------------------------------------ processes
NoCall == Call("init", <<>>, <<>>)

Init ==
    /\ collections = <<>>
    /\ sessionsTxtExists = FALSE
    /\ sessionsTxt = <<>>
    /\ chroma = <<>>
    /\ llmCalls = 0
    /\ call = NoCall
    /\ ret = "None"
    /\ rawName = FALSE
    /\ pc = "menu"
    /\ session_name = <<>>
    /\ documents_list = <<>>
    /\ input = <<>>

\* ------------------------------------------- the registry used as a library
\* create_session called with a name of S
CreateSessionOf(S) ==
    \E name \in S :
        /\ HasSession(collections, name)
           \/ (Len(collections) < MaxSessions /\ Len(sessionsTxt) < MaxLines)
        /\ create_session(name)
        /\ UNCHANGED shellVars

\* delete_session called with a name of S
DeleteSessionOf(S) ==
    \E name \in S :
        /\ delete_session(name)
        /\ UNCHANGED shellVars

CreateSession == CreateSessionOf(Names)

DeleteSession == DeleteSessionOf(Names)

\* the process ends and a new one constructs vectordb()
Restart ==
    /\ load_all_sessions
    /\ call' = Call("restart", <<>>, <<>>)
    /\ ret' = "None"
    /\ UNCHANGED <<llmCalls, rawName, shellVars>>

Next == CreateSession \/ DeleteSession \/ Restart

Spec == Init /\ [][Next]_vars

\* ------------------------------------- ingestion and queries, as a library
\* the chunks a batch adds before its first document that fails to load
RECURSIVE BatchChunks(_)
BatchChunks(docs) ==
    IF docs = <<>> \/ ~Loadable(Head(docs)) THEN 0
    ELSE ChunkCount(Head(docs)) + BatchChunks(Tail(docs))

IngestCreate == CreateSessionOf(IngestNames)

IngestDelete == DeleteSessionOf(IngestNames)

AddFile ==
    \E name \in IngestNames, docs \in Batches :
        /\ HasSession(collections, name)
             => Len(chroma[name]) + BatchChunks(docs) <= MaxChunks
        /\ add_file(docs, name)
        /\ UNCHANGED shellVars

Query ==
    \E name \in IngestNames, question \in Questions :
        /\ query(name, question)
        /\ llmCalls' <= MaxLlmCalls
        /\ UNCHANGED shellVars

IngestNext == IngestCreate \/ IngestDelete \/ AddFile \/ Query \/ Restart

IngestSpec == Init /\ [][IngestNext]_vars
\* ------------------------------------------------------------- the shell
\* main's loop at "Enter your choice: "
ShellMenu ==
    /\ pc = "menu"
    /\ \E line \in Choices :
        LET choice == Strip(line) IN
        /\ input' = line
        /\ choice = <<"1">>
             => Len(collections) < MaxSessions /\ Len(sessionsTxt) < MaxLines
        /\ pc' = CASE choice = <<"6">> -> "exited"
                   [] choice = <<"1">> -> "create_prompt"
                   [] choice = <<"2">> -> "add_session_prompt"
                   [] choice = <<"3">> -> "menu"
                   [] choice = <<"4">> -> "chat_session_prompt"
                   [] choice = <<"5">> -> "delete_prompt"
                   [] OTHER -> "menu"
        /\ UNCHANGED <<dbVars, llmCalls, call, ret, rawName, session_name,
                       documents_list>>

\* functions.create_session's loop
ShellCreate ==
    /\ pc = "create_prompt"
    /\ \E line \in Names :
        LET name == Strip(line) IN
        /\ input' = line
        /\ UNCHANGED documents_list
        /\ IF name = <<>>
           THEN /\ session_name' = name
                /\ UNCHANGED <<dbVars, llmCalls, call, ret, rawName, pc>>
           ELSE /\ create_session(name)
                /\ pc' = IF ret' = "True" THEN "menu" ELSE "create_prompt"
                /\ session_name' = IF ret' = "True" THEN <<>> ELSE name

\* the loop that asks for a session name in add_documents and in start_chat:
\* the prompt is left only with a name get_session finds
AskSession(prompt, then) ==
    /\ pc = prompt
    /\ \E line \in Names :
        /\ input' = line
        /\ session_name' = line
        /\ pc' = IF get_session(collections, line) = "None" THEN prompt ELSE then
    /\ UNCHANGED <<dbVars, llmCalls, call, ret, rawName, documents_list>>

ShellAddSession == AskSession("add_session_prompt", "add_doc_prompt")

\* add_documents' second loop, and add_file when the user types done
ShellAddDoc ==
    /\ pc = "add_doc_prompt"
    /\ \E line \in DocInputs :
        /\ input' = line
        /\ IF Lower(line) = <<"done">>
           THEN /\ add_file(documents_list, session_name)
                /\ pc' = IF ret' = "None" THEN "menu" ELSE "crashed"
                /\ session_name' = <<>>
                /\ documents_list' = <<>>
           ELSE /\ Len(documents_list) < MaxBatch
                /\ Len(chroma[session_name])
                     + BatchChunks(Append(documents_list, line)) <= MaxChunks
                /\ documents_list' = Append(documents_list, line)
                /\ UNCHANGED <<dbVars, llmCalls, call, ret, rawName, pc, session_name>>

ShellChatSession == AskSession("chat_session_prompt", "chat_question_prompt")

\* start_chat's second loop
ShellChat ==
    /\ pc = "chat_question_prompt"
    /\ \E line \in QuestionInputs :
        /\ input' = line
        /\ UNCHANGED documents_list
        /\ IF Lower(line) = <<"quit">>
           THEN /\ pc' = "menu"
                /\ session_name' = <<>>
                /\ UNCHANGED <<dbVars, llmCalls, call, ret, rawName>>
           ELSE /\ query(session_name, line)
                /\ llmCalls' <= MaxLlmCalls
                /\ UNCHANGED <<pc, session_name>>

\* functions.delete_session without its get_session loop
ShellDeleteUnchecked ==
    /\ pc = "delete_prompt"
    /\ \E line \in Names :
        /\ input' = line
        /\ UNCHANGED documents_list
        /\ delete_session(line)
        /\ pc' = IF ret' = "None" THEN "menu" ELSE "crashed"
        /\ session_name' = <<>>

\* functions.delete_session
ShellDelete ==
    /\ pc = "delete_prompt"
    /\ \E line \in Names :
        /\ input' = line
        /\ UNCHANGED documents_list
        /\ IF get_session(collections, line) = "None"
           THEN /\ session_name' = line
                /\ UNCHANGED <<dbVars, llmCalls, call, ret, rawName, pc>>
           ELSE /\ delete_session(line)
                /\ pc' = IF ret' = "None" THEN "menu" ELSE "crashed"
                /\ session_name' = <<>>

\* the program is started again after it has ended: main.py builds vectordb()
ShellStart ==
    /\ pc \in {"exited", "crashed"}
    /\ load_all_sessions
    /\ call' = Call("restart", <<>>, <<>>)
    /\ ret' = "None"
    /\ pc' = "menu"
    /\ session_name' = <<>>
    /\ documents_list' = <<>>
    /\ UNCHANGED <<llmCalls, rawName, input>>

ShellNext ==
    \/ ShellMenu
    \/ ShellCreate
    \/ ShellAddSession
    \/ ShellAddDoc
    \/ ShellChatSession
    \/ ShellChat
    \/ ShellDelete
    \/ ShellStart

ShellSpec == Init /\ [][ShellNext]_vars
\* ------------------------------------------------------------ properties
\* the lines of the file that are not blank, as written
NonBlank(lines) == SelectSeq(lines, LAMBDA l : Strip(l) # <<>>)

\* every line of the file is non-blank and has no space before or after it
CleanFile(lines) == \A i \in 1..Len(lines) : lines[i] # <<>> /\ Strip(lines[i]) = lines[i]

NoDuplicates(keys) == \A i, j \in 1..Len(keys) : keys[i] = keys[j] => i = j

\* the collections other than name's are the ones they were, chunk for chunk
OtherCollectionsKept(name) ==
    \A m \in (DOMAIN chroma) \ {name} : m \in DOMAIN chroma' /\ chroma'[m] = chroma[m]

\* the chunks of a whole batch
AllChunks(docs) == ChunksOfRange(docs, 1, Len(docs))

\* the position of the first document of the batch that fails to load, 0 if none
FirstFailing(docs) ==
    IF \E i \in 1..Len(docs) : ~Loadable(docs[i])
    THEN CHOOSE i \in 1..Len(docs) :
             /\ ~Loadable(docs[i])
             /\ \A j \in 1..(i - 1) : Loadable(docs[j])
    ELSE 0

RECURSIVE SumChunkCounts(_)
SumChunkCounts(docs) ==
    IF docs = <<>> THEN 0 ELSE ChunkCount(Head(docs)) + SumChunkCounts(Tail(docs))

\* C1: create_session with a name that is in the in-memory registry returns
\* False and changes nothing: sessions.txt, the name -> collection map and
\* every collection's chunks are what they were before the call.
C1_DuplicateCreateChangesNothing ==
    [][(call'.op = "create_session" /\ HasSession(collections, call'.name))
         => /\ ret' = "False"
            /\ sessionsTxt' = sessionsTxt
            /\ sessionsTxtExists' = sessionsTxtExists
            /\ collections' = collections
            /\ chroma' = chroma]_vars

\* a refused create_session on a session that holds chunks
C1_Witness ==
    /\ call.op = "create_session"
    /\ ret = "False"
    /\ chroma[call.name] # <<>>

\* C2: create_session with a name that is not in the in-memory registry returns
\* True, leaves sessions.txt as it was with exactly one more line, that name, at
\* its end, and get_session of the name then returns a handle, not None.
C2_FreshCreateAppendsOneLine ==
    [][(call'.op = "create_session" /\ ~HasSession(collections, call'.name))
         => /\ ret' = "True"
            /\ sessionsTxtExists'
            /\ sessionsTxt' = Append(sessionsTxt, call'.name)
            /\ Len(sessionsTxt') = Len(sessionsTxt) + 1
            /\ get_session(collections', call'.name) = "handle"]_vars

\* a successful create_session that appended to a file that had a line already
C2_Witness ==
    /\ call.op = "create_session"
    /\ ret = "True"
    /\ Len(sessionsTxt) >= 2
    /\ sessionsTxt[Len(sessionsTxt)] = call.name

\* delete_session is called with a name of a registry of non-empty names
C3_Case ==
    /\ call'.op = "delete_session"
    /\ HasSession(collections, call'.name)
    /\ \A k \in Range(collections) : k # <<>>

\* C3 as claimed: for every name of a registry of non-empty names, after
\* delete_session(name) no line of sessions.txt is that name, get_session(name)
\* is None, and every other session keeps its lines in the file, its entry in
\* the map and its collection.
C3_DeleteRemovesOnlyThatSession ==
    [][C3_Case
         => LET name == call'.name
                others == Range(collections) \ {name}
            IN /\ name \notin Range(sessionsTxt')
               /\ get_session(collections', name) = "None"
               /\ SelectSeq(sessionsTxt', LAMBDA l : l \in others)
                    = SelectSeq(sessionsTxt, LAMBDA l : l \in others)
               /\ collections' = SelectSeq(collections, LAMBDA k : k # name)
               /\ OtherCollectionsKept(name)]_vars

\* C3 as amended: the same, for a registry file whose lines are all non-blank
\* and free of leading and trailing whitespace; the file is then its previous
\* content without the lines that are the name.
C3_DeleteRemovesOnlyThatSessionCleanFile ==
    [][(C3_Case /\ CleanFile(sessionsTxt))
         => LET name == call'.name
                others == Range(collections) \ {name}
            IN /\ name \notin Range(sessionsTxt')
               /\ get_session(collections', name) = "None"
               /\ sessionsTxt' = SelectSeq(sessionsTxt, LAMBDA l : l # name)
               /\ SelectSeq(sessionsTxt', LAMBDA l : l \in others)
                    = SelectSeq(sessionsTxt, LAMBDA l : l \in others)
               /\ collections' = SelectSeq(collections, LAMBDA k : k # name)
               /\ OtherCollectionsKept(name)]_vars

\* a session deleted from a clean file in which another session stays
C3_Witness ==
    /\ call.op = "delete_session"
    /\ ret = "None"
    /\ ~rawName
    /\ collections # <<>>
    /\ sessionsTxt = collections

\* C4: query invokes the LLM only when the session is in the registry and the
\* similarity search returned a chunk; for an absent session and for an empty
\* search result it returns the fallback string and makes no LLM call.
C4_QueryFallsBackWithoutLlm ==
    [][call'.op = "query"
         => LET name == call'.name
                found == /\ HasSession(collections, name)
                         /\ similarity_search(chroma[name], NResults) # <<>>
            IN /\ llmCalls' # llmCalls => found
               /\ ~found => (ret' = Fallback /\ llmCalls' = llmCalls)
               /\ found => llmCalls' = llmCalls + 1]_vars

\* a query of a session that exists and holds no chunk, after the LLM has been used
C4_Witness ==
    /\ call.op = "query"
    /\ ret = Fallback
    /\ HasSession(collections, call.name)
    /\ llmCalls > 0

\* C5: delete_session with a name that is not in the in-memory registry raises
\* KeyError before any side effect: no collection is destroyed, sessions.txt is
\* not rewritten and the in-memory map is unchanged.
C5_DeleteAbsentRaisesFirst ==
    [][(call'.op = "delete_session" /\ ~HasSession(collections, call'.name))
         => /\ ret' = "KeyError"
            /\ chroma' = chroma
            /\ sessionsTxt' = sessionsTxt
            /\ sessionsTxtExists' = sessionsTxtExists
            /\ collections' = collections]_vars

\* a KeyError from delete_session while sessions exist and the file has lines
C5_Witness ==
    /\ call.op = "delete_session"
    /\ ret = "KeyError"
    /\ collections # <<>>
    /\ sessionsTxt # <<>>

\* C6: when document i is the first of the batch that fails to load, add_file
\* raises, and the collection then holds its previous chunks followed by the
\* chunks of the documents before i and nothing of the documents from i on.
C6_FirstFailureAbortsBatch ==
    [][(/\ call'.op = "add_file"
        /\ HasSession(collections, call'.name)
        /\ FirstFailing(call'.docs) # 0)
         => LET name == call'.name
                i == FirstFailing(call'.docs)
            IN /\ ret' = "LoadError"
               /\ chroma'[name] = chroma[name] \o ChunksOfRange(call'.docs, 1, i - 1)
               /\ OtherCollectionsKept(name)
               /\ collections' = collections
               /\ sessionsTxt' = sessionsTxt]_vars

\* a batch that failed at its second document, after its first was inserted
C6_Witness ==
    /\ call.op = "add_file"
    /\ ret = "LoadError"
    /\ FirstFailing(call.docs) = 2
    /\ chroma[call.name] # <<>>

\* C7: a successful add_file appends the chunks of each listed document once per
\* occurrence, so the chunk count grows by the sum of the documents' chunk
\* counts; nothing is deduplicated, and the other sessions' chunks are unchanged.
C7_EachDocumentInsertedOnce ==
    [][(/\ call'.op = "add_file"
        /\ HasSession(collections, call'.name)
        /\ ret' = "None")
         => LET name == call'.name
            IN /\ chroma'[name] = chroma[name] \o AllChunks(call'.docs)
               /\ Len(chroma'[name]) = Len(chroma[name]) + SumChunkCounts(call'.docs)
               /\ OtherCollectionsKept(name)]_vars

\* a successful batch of two documents into a collection that then holds the
\* first chunk of one document twice
C7_Witness ==
    /\ call.op = "add_file"
    /\ ret = "None"
    /\ Len(call.docs) = 2
    /\ \E i, j \in 1..Len(chroma[call.name]) :
          /\ i # j
          /\ chroma[call.name][i] = chroma[call.name][j]

\* C8 as claimed: in every state reached by create_session, delete_session and
\* restarts from an absent file, the non-blank lines of sessions.txt are the
\* in-memory names in insertion order, without duplicates, and every name of
\* the registry has a collection in the vector store.
C8_FileMatchesRegistry ==
    /\ NonBlank(sessionsTxt) = collections
    /\ NoDuplicates(collections)
    /\ Range(collections) \subseteq DOMAIN chroma

\* C8 as amended: the same, as long as every name create_session was given is
\* non-empty and free of leading and trailing whitespace.
C8_FileMatchesRegistryOfStrippedNames ==
    ~rawName => C8_FileMatchesRegistry

\* a restart that recovered two sessions
C8_Witness ==
    /\ ~rawName
    /\ call.op = "restart"
    /\ Len(collections) >= 2

\* ---------------------------------------------------- properties of the shell
SessionPrompts == {"add_session_prompt", "chat_session_prompt", "delete_prompt"}

Prompts ==
    SessionPrompts \cup {"create_prompt", "add_doc_prompt", "chat_question_prompt"}

\* the line just read is a user error at the prompt it was read at
UserError ==
    \/ /\ pc = "create_prompt"
       /\ Strip(input') = <<>> \/ HasSession(collections, Strip(input'))
    \/ /\ pc \in SessionPrompts
       /\ ~HasSession(collections, input')

\* C9: a user error at a prompt of the shell leaves the shell at that prompt
\* and the registry (map, file, collections) unchanged and does not end the
\* process; delete_session, add_file and query are only called with a name of
\* the in-memory registry, so no KeyError is raised through the shell.
C9_UserErrorsKeepThePrompt ==
    /\ [][UserError => (pc' = pc /\ UNCHANGED dbVars)]_vars
    /\ [][(pc = "delete_prompt" /\ pc' # pc)
            => (call'.op = "delete_session" /\ HasSession(collections, call'.name))]_vars
    /\ [](/\ ret # "KeyError"
          /\ pc \in {"add_doc_prompt", "chat_question_prompt"}
               => HasSession(collections, session_name)
          /\ pc = "crashed" => ret = "LoadError")

\* an unknown name was typed at the delete prompt while a session exists
C9_Witness ==
    /\ pc = "delete_prompt"
    /\ input \in Names
    /\ ~HasSession(collections, input)
    /\ collections # <<>>

\* a step of the shell that leaves the prompt it is at
LeavePrompt == ShellNext /\ pc' # pc

\* C10: every menu action can be completed in every registry state: at every
\* prompt some input takes the shell on, towards the menu. (A prompt no input
\* leaves is a prompt from which the menu is never reached.)
C10_EveryPromptCanBeLeft == pc \in Prompts => ENABLED LeavePrompt
====
